---- MODULE Spec2Model ----
(***************************************************************************)
(* Model of circularbuf::Buffer (src/src/lib.rs): a fixed-size ring of     *)
(* bytes in which new writes overwrite the oldest data.                    *)
(*                                                                         *)
(* A buffer is the record [data, write_cursor, written] of the struct.     *)
(* Rust slices are 0-based and TLA+ sequences 1-based: s[a..] is           *)
(* SliceFrom(s, a) and s[..b] is SliceTo(s, b).  An operation that can     *)
(* panic returns a record with a panic flag next to its result.            *)
(***************************************************************************)
EXTENDS Integers, Sequences, FiniteSets, TLC

\* ---------------------------------------------------------------- bounds
MaxSize == 3        \* largest capacity of the backing storage
MaxWrite == 3       \* longest slice passed to one write call
MaxWritten == 4     \* cap on the total-written counter
MaxDst == 3         \* longest destination passed to read_into

Byte == {0, 1}      \* two byte values stand for u8

Min(a, b) == IF a < b THEN a ELSE b

\* all byte strings of length n, and of length at most n
BytesOfLen(n) == [1..n -> Byte]
BytesUpTo(n) == UNION {BytesOfLen(k) : k \in 0..n}

\* [0u8; n], the storage the tests construct a buffer over
Zeros(n) == [i \in 1..n |-> 0]

\* s[a..] and s[..b] of Rust, for a, b within 0..Len(s)
SliceFrom(s, a) == SubSeq(s, a + 1, Len(s))
SliceTo(s, b) == SubSeq(s, 1, b)

\* ------------------------------------------------------- the operations

\* fn copy(dst, src): the contents of dst afterwards
copy(dst, src) ==
  LET min_len == Min(Len(src), Len(dst))
  IN  SliceTo(src, min_len) \o SliceFrom(dst, min_len)

\* Buffer::new / From<B>
new(d) == [data |-> d, write_cursor |-> 0, written |-> 0]

\* Buffer::size
size(self) == Len(self.data)

\* Buffer::written
written(self) == self.written

\* a write that advances the cursor by the original length n
write_cursor_by_n(self, buf) ==
  LET n == Len(buf)
      sz == Len(self.data)
      b == IF n > sz THEN SliceFrom(buf, n - sz) ELSE buf
      c == self.write_cursor
      remain == sz - c
      d1 == SliceTo(self.data, c) \o copy(SliceFrom(self.data, c), b)
      d2 == IF n > remain THEN copy(d1, SliceFrom(b, remain)) ELSE d1
  IN  IF sz = 0
      THEN [self |-> [data |-> d2, write_cursor |-> c, written |-> self.written + n],
            panic |-> TRUE, ret |-> 0]
      ELSE [self |-> [data |-> d2, write_cursor |-> (c + n) % sz,
                      written |-> self.written + n],
            panic |-> FALSE, ret |-> n]

\* a write that counts only the bytes it keeps
write_counts_kept(self, buf) ==
  LET n == Len(buf)
      sz == Len(self.data)
      b == IF n > sz THEN SliceFrom(buf, n - sz) ELSE buf
      c == self.write_cursor
      remain == sz - c
      d1 == SliceTo(self.data, c) \o copy(SliceFrom(self.data, c), b)
      d2 == IF n > remain THEN copy(d1, SliceFrom(b, remain)) ELSE d1
  IN  IF sz = 0
      THEN [self |-> [data |-> d2, write_cursor |-> c,
                      written |-> self.written + Len(b)],
            panic |-> TRUE, ret |-> 0]
      ELSE [self |-> [data |-> d2, write_cursor |-> (c + Len(b)) % sz,
                      written |-> self.written + Len(b)],
            panic |-> FALSE, ret |-> Len(b)]

\* a write that returns early on an empty input
write_empty_returns(self, buf) ==
  LET n == Len(buf)
      sz == Len(self.data)
      b == IF n > sz THEN SliceFrom(buf, n - sz) ELSE buf
      c == self.write_cursor
      remain == sz - c
      d1 == SliceTo(self.data, c) \o copy(SliceFrom(self.data, c), b)
      d2 == IF n > remain THEN copy(d1, SliceFrom(b, remain)) ELSE d1
  IN  IF n = 0 THEN [self |-> self, panic |-> FALSE, ret |-> 0]
      ELSE IF sz = 0
      THEN [self |-> [data |-> d2, write_cursor |-> c, written |-> self.written + n],
            panic |-> TRUE, ret |-> 0]
      ELSE [self |-> [data |-> d2, write_cursor |-> (c + Len(b)) % sz,
                      written |-> self.written + n],
            panic |-> FALSE, ret |-> n]

\* a write that wraps the cursor only once it is past the end of the storage
write_wraps_late(self, buf) ==
  LET n == Len(buf)
      sz == Len(self.data)
      b == IF n > sz THEN SliceFrom(buf, n - sz) ELSE buf
      c == self.write_cursor
      remain == sz - c
      d1 == SliceTo(self.data, c) \o copy(SliceFrom(self.data, c), b)
      d2 == IF n > remain THEN copy(d1, SliceFrom(b, remain)) ELSE d1
  IN  IF sz = 0
      THEN [self |-> [data |-> d2, write_cursor |-> c, written |-> self.written + n],
            panic |-> TRUE, ret |-> 0]
      ELSE [self |-> [data |-> d2,
                      write_cursor |-> IF c + Len(b) > sz THEN (c + Len(b)) % sz
                                       ELSE c + Len(b),
                      written |-> self.written + n],
            panic |-> FALSE, ret |-> n]

\* a write that moves the cursor on by at least one position
write_min_advance(self, buf) ==
  LET n == Len(buf)
      sz == Len(self.data)
      b == IF n > sz THEN SliceFrom(buf, n - sz) ELSE buf
      c == self.write_cursor
      remain == sz - c
      d1 == SliceTo(self.data, c) \o copy(SliceFrom(self.data, c), b)
      d2 == IF n > remain THEN copy(d1, SliceFrom(b, remain)) ELSE d1
  IN  IF sz = 0
      THEN [self |-> [data |-> d2, write_cursor |-> c, written |-> self.written + n],
            panic |-> TRUE, ret |-> 0]
      ELSE [self |-> [data |-> d2,
                      write_cursor |-> (c + (IF Len(b) = 0 THEN 1 ELSE Len(b))) % sz,
                      written |-> self.written + n],
            panic |-> FALSE, ret |-> n]

\* a write that keeps the first size bytes of a longer input
write_keeps_head(self, buf) ==
  LET n == Len(buf)
      sz == Len(self.data)
      b == IF n > sz THEN SliceTo(buf, sz) ELSE buf
      c == self.write_cursor
      remain == sz - c
      d1 == SliceTo(self.data, c) \o copy(SliceFrom(self.data, c), b)
      d2 == IF n > remain THEN copy(d1, SliceFrom(b, remain)) ELSE d1
  IN  IF sz = 0
      THEN [self |-> [data |-> d2, write_cursor |-> c, written |-> self.written + n],
            panic |-> TRUE, ret |-> 0]
      ELSE [self |-> [data |-> d2, write_cursor |-> (c + Len(b)) % sz,
                      written |-> self.written + n],
            panic |-> FALSE, ret |-> n]

\* Buffer::write.  The counter is bumped first, the slice is cut to its last
\* size bytes, copied at the cursor and wrapped to offset 0, and the cursor
\* advances modulo size; with size = 0 that modulo panics, after the counter
\* was already bumped.
write(self, buf) ==
  LET n == Len(buf)
      sz == Len(self.data)
      b == IF n > sz THEN SliceFrom(buf, n - sz) ELSE buf
      c == self.write_cursor
      remain == sz - c
      d1 == SliceTo(self.data, c) \o copy(SliceFrom(self.data, c), b)
      d2 == IF n > remain THEN copy(d1, SliceFrom(b, remain)) ELSE d1
  IN  IF sz = 0
      THEN [self |-> [data |-> d2, write_cursor |-> c, written |-> self.written + n],
            panic |-> TRUE, ret |-> 0]
      ELSE [self |-> [data |-> d2, write_cursor |-> (c + Len(b)) % sz,
                      written |-> self.written + n],
            panic |-> FALSE, ret |-> n]

\* a read_hint that reports the counter once the storage is not exactly full
read_hint_counter(self) ==
  LET sz == Len(self.data)
  IN  IF self.written >= sz /\ self.write_cursor = 0 THEN sz
      ELSE self.written

\* Buffer::read_hint
read_hint(self) ==
  LET sz == Len(self.data)
  IN  IF self.written >= sz /\ self.write_cursor = 0 THEN sz
      ELSE IF self.written > sz THEN sz
      ELSE self.write_cursor

\* a read_into that zeroes the destination beyond the bytes it delivers
read_into_clears_tail(self, dst) ==
  LET sz == Len(self.data)
      c == self.write_cursor
      k == IF self.written >= sz THEN sz ELSE c
      bytes == IF self.written > sz
               THEN SliceFrom(self.data, c) \o SliceTo(self.data, c)
               ELSE SliceTo(self.data, k)
  IN  IF k > Len(dst)
      THEN [panic |-> TRUE, ret |-> 0, dst |-> dst]
      ELSE [panic |-> FALSE, ret |-> k,
            dst |-> bytes \o [i \in 1..(Len(dst) - k) |-> 0]]

\* Buffer::read_into: dst afterwards, the count returned, or a panic from
\* one of the slice expressions dst[..size], dst[size - cursor..], dst[..cursor]
read_into(self, dst) ==
  LET sz == Len(self.data)
      c == self.write_cursor
  IN  IF self.written >= sz /\ c = 0
      THEN IF sz > Len(dst)
           THEN [panic |-> TRUE, ret |-> 0, dst |-> dst]
           ELSE [panic |-> FALSE, ret |-> sz,
                 dst |-> self.data \o SliceFrom(dst, sz)]
      ELSE IF self.written > sz
      THEN LET t1 == copy(dst, SliceFrom(self.data, c))
           IN  IF sz - c > Len(dst)
               THEN [panic |-> TRUE, ret |-> 0, dst |-> t1]
               ELSE [panic |-> FALSE, ret |-> sz,
                     dst |-> SliceTo(t1, sz - c)
                             \o copy(SliceFrom(t1, sz - c), SliceTo(self.data, c))]
      ELSE IF c > Len(dst)
           THEN [panic |-> TRUE, ret |-> 0, dst |-> dst]
           ELSE [panic |-> FALSE, ret |-> c,
                 dst |-> SliceTo(self.data, c) \o SliceFrom(dst, c)]

\* a read_to_bytes that ignores the cursor before the buffer has wrapped
read_to_bytes_whole(self) ==
  LET sz == Len(self.data)
      c == self.write_cursor
  IN  IF self.written > sz /\ c # 0
      THEN [kind |-> "Owned", bytes |-> SliceFrom(self.data, c) \o SliceTo(self.data, c)]
      ELSE [kind |-> "Borrowed", bytes |-> self.data]

\* a read_to_bytes that copies the two segments of a wrapped buffer in
\* storage order
read_to_bytes_unrotated(self) ==
  LET sz == Len(self.data)
      c == self.write_cursor
  IN  IF self.written >= sz /\ c = 0
      THEN [kind |-> "Borrowed", bytes |-> self.data]
      ELSE IF self.written > sz
      THEN [kind |-> "Owned", bytes |-> SliceTo(self.data, c) \o SliceFrom(self.data, c)]
      ELSE [kind |-> "Borrowed", bytes |-> SliceTo(self.data, c)]

\* a read_to_bytes that materializes a copy whenever the buffer has wrapped
read_to_bytes_copies_full(self) ==
  LET sz == Len(self.data)
      c == self.write_cursor
  IN  IF self.written > sz
      THEN [kind |-> "Owned", bytes |-> SliceFrom(self.data, c) \o SliceTo(self.data, c)]
      ELSE IF self.written >= sz /\ c = 0
      THEN [kind |-> "Borrowed", bytes |-> self.data]
      ELSE [kind |-> "Borrowed", bytes |-> SliceTo(self.data, c)]

\* Buffer::read_to_bytes: the bytes of the Cow and whether it is borrowed
read_to_bytes(self) ==
  LET sz == Len(self.data)
      c == self.write_cursor
  IN  IF self.written >= sz /\ c = 0
      THEN [kind |-> "Borrowed", bytes |-> self.data]
      ELSE IF self.written > sz
      THEN LET out0 == Zeros(sz)
               out1 == copy(out0, SliceFrom(self.data, c))
           IN  [kind |-> "Owned",
                bytes |-> SliceTo(out1, sz - c)
                          \o copy(SliceFrom(out1, sz - c), SliceTo(self.data, c))]
      ELSE [kind |-> "Borrowed", bytes |-> SliceTo(self.data, c)]

\* a reset that clears the cursor only
reset_keeps_written(self) == [self EXCEPT !.write_cursor = 0]

\* a reset that clears the counter only
reset_keeps_cursor(self) == [self EXCEPT !.written = 0]

\* a reset that also zeroes the storage
reset_clears_storage(self) ==
  [data |-> Zeros(Len(self.data)), write_cursor |-> 0, written |-> 0]

\* Buffer::reset
reset(self) == [self EXCEPT !.write_cursor = 0, !.written = 0]

\* the I/O adapters over Buffer::write

\* a std::io::Write::write that accepts only what fits and reports that count
io_write_fits(self, buf) ==
  LET r == write(self, SliceTo(buf, Min(Len(buf), Len(self.data))))
  IN  [self |-> r.self, panic |-> r.panic, ret |-> r.ret,
       kind |-> IF r.panic THEN "none" ELSE "Ok"]

\* <Buffer as std::io::Write>::write: Ok(self.write(buf))
io_write(self, buf) ==
  LET r == write(self, buf)
  IN  [self |-> r.self, panic |-> r.panic, ret |-> r.ret,
       kind |-> IF r.panic THEN "none" ELSE "Ok"]

\* <Buffer as std::io::Write>::flush: Ok(())
io_flush(self) == [self |-> self, panic |-> FALSE, ret |-> 0, kind |-> "Ok"]

\* <Buffer as tokio::io::AsyncWrite>::poll_write: Poll::Ready(Ok(write(buf)))
tokio_poll_write(self, buf) ==
  LET r == write(self, buf)
  IN  [self |-> r.self, panic |-> r.panic, ret |-> r.ret,
       kind |-> IF r.panic THEN "none" ELSE "Ready(Ok)"]

\* <Buffer as tokio::io::AsyncWrite>::poll_flush: Poll::Ready(Ok(()))
tokio_poll_flush(self) ==
  [self |-> self, panic |-> FALSE, ret |-> 0, kind |-> "Ready(Ok)"]

\* <Buffer as tokio::io::AsyncWrite>::poll_shutdown: Poll::Ready(Ok(()))
tokio_poll_shutdown(self) ==
  [self |-> self, panic |-> FALSE, ret |-> 0, kind |-> "Ready(Ok)"]

\* <Buffer as futures_io::AsyncWrite>::poll_write: Poll::Ready(Ok(write(buf)))
futures_poll_write(self, buf) ==
  LET r == write(self, buf)
  IN  [self |-> r.self, panic |-> r.panic, ret |-> r.ret,
       kind |-> IF r.panic THEN "none" ELSE "Ready(Ok)"]

\* <Buffer as futures_io::AsyncWrite>::poll_flush: Poll::Ready(Ok(()))
futures_poll_flush(self) ==
  [self |-> self, panic |-> FALSE, ret |-> 0, kind |-> "Ready(Ok)"]

\* <Buffer as futures_io::AsyncWrite>::poll_close: Poll::Ready(Ok(()))
futures_poll_close(self) ==
  [self |-> self, panic |-> FALSE, ret |-> 0, kind |-> "Ready(Ok)"]

\* ---------------------------------------------------------------- state
VARIABLES
  buf,      \* the Buffer under study
  fresh,    \* a Buffer constructed over zeroed storage of the same capacity when
            \* buf was constructed / last reset, and given the same writes since
  stream,   \* concatenation of every input written since construction / reset
  resets,   \* TRUE once reset() was called
  last      \* the most recent call: its name, argument and results

vars == <<buf, fresh, stream, resets, last>>

NoCall == [op |-> "new", panic |-> FALSE, ret |-> 0,
           arg |-> <<>>, dst |-> <<>>, out |-> <<>>, kind |-> "none"]

Init ==
  \E sz \in 0..MaxSize :
    \E d \in BytesOfLen(sz) :
      /\ buf = new(d)
      /\ fresh = new(Zeros(sz))
      /\ stream = <<>>
      /\ resets = FALSE
      /\ last = NoCall

\* buf.write(b), the same call on the fresh twin
DoWrite ==
  \E b \in BytesUpTo(MaxWrite) :
    /\ buf.written + Len(b) <= MaxWritten
    /\ LET r == write(buf, b)
       IN  /\ buf' = r.self
           /\ last' = [NoCall EXCEPT !.op = "write", !.panic = r.panic,
                                     !.ret = r.ret, !.arg = b]
    /\ fresh' = write(fresh, b).self
    /\ stream' = stream \o b
    /\ UNCHANGED resets

\* buf.reset(); the twin is replaced by a newly constructed buffer
DoReset ==
  /\ buf' = reset(buf)
  /\ fresh' = new(Zeros(size(buf)))
  /\ stream' = <<>>
  /\ resets' = TRUE
  /\ last' = [NoCall EXCEPT !.op = "reset"]

\* buf.read_hint()
DoReadHint ==
  /\ last' = [NoCall EXCEPT !.op = "read_hint", !.ret = read_hint(buf)]
  /\ UNCHANGED <<buf, fresh, stream, resets>>

\* a read_into that consumes what it delivers
DoReadIntoDraining ==
  \E d \in BytesUpTo(MaxDst) :
    /\ LET r == read_into(buf, d)
       IN  last' = [NoCall EXCEPT !.op = "read_into", !.panic = r.panic,
                                  !.ret = r.ret, !.arg = d, !.dst = r.dst]
    /\ buf' = IF read_into(buf, d).panic THEN buf ELSE reset(buf)
    /\ UNCHANGED <<fresh, stream, resets>>

\* buf.read_into(&mut d)
DoReadInto ==
  \E d \in BytesUpTo(MaxDst) :
    /\ LET r == read_into(buf, d)
       IN  last' = [NoCall EXCEPT !.op = "read_into", !.panic = r.panic,
                                  !.ret = r.ret, !.arg = d, !.dst = r.dst]
    /\ UNCHANGED <<buf, fresh, stream, resets>>

\* buf.read_to_bytes()
DoReadToBytes ==
  /\ LET r == read_to_bytes(buf)
     IN  last' = [NoCall EXCEPT !.op = "read_to_bytes", !.out = r.bytes,
                                !.kind = r.kind]
  /\ UNCHANGED <<buf, fresh, stream, resets>>

\* buf.size()
DoSize ==
  /\ last' = [NoCall EXCEPT !.op = "size", !.ret = size(buf)]
  /\ UNCHANGED <<buf, fresh, stream, resets>>

\* buf.written()
DoWritten ==
  /\ last' = [NoCall EXCEPT !.op = "written", !.ret = written(buf)]
  /\ UNCHANGED <<buf, fresh, stream, resets>>

Next ==
  \/ DoWrite
  \/ DoReset
  \/ DoReadHint
  \/ DoReadInto
  \/ DoReadToBytes
  \/ DoSize
  \/ DoWritten

Spec == Init /\ [][Next]_vars

TypeOK ==
  /\ buf.data \in BytesUpTo(MaxSize)
  /\ buf.write_cursor \in 0..MaxSize
  /\ buf.written \in 0..MaxWritten
  /\ Len(fresh.data) = Len(buf.data)
  /\ resets \in BOOLEAN

\* ---------------------------------------------------------------- claims

\* the last n elements of s
LastN(s, n) == SubSeq(s, Len(s) - n + 1, Len(s))

\* the destinations read_into is tried with
Dsts == BytesUpTo(MaxDst)

\* read_into and read_to_bytes on self both deliver exactly the bytes want
ReadsDeliver(self, want) ==
  /\ read_to_bytes(self).bytes = want
  /\ \A d \in Dsts :
       Len(d) >= Len(want) =>
         LET r == read_into(self, d)
         IN  /\ ~r.panic
             /\ r.ret = Len(want)
             /\ SliceTo(r.dst, r.ret) = want

\* C1 (overwrite law): for capacity >= 1, once the inputs written since
\* construction or reset total more than the capacity, read_into and
\* read_to_bytes return exactly the last `capacity` bytes of their
\* concatenation, in order, however the stream was split into calls.
C1_OverwriteLaw ==
  (size(buf) >= 1 /\ Len(stream) > size(buf)) =>
    ReadsDeliver(buf, LastN(stream, size(buf)))

\* C1 witness: a wrapped buffer of capacity >= 2 with the cursor off 0, filled
\* by more than one call, read by read_into, which delivered the stream's tail
C1_Witness ==
  /\ last.op = "read_into" /\ ~last.panic
  /\ size(buf) >= 2 /\ buf.write_cursor # 0
  /\ Len(last.arg) >= size(buf)
  /\ Len(stream) > MaxWrite
  /\ LastN(stream, size(buf)) = SliceTo(last.dst, size(buf))
  /\ \E i, j \in 1..size(buf) : last.dst[i] # last.dst[j]

\* C2 (retention law): on a buffer never reset, whatever its initial storage,
\* after writes of total length L <= capacity the reads return exactly those
\* L bytes in the order written.
C2_RetentionLaw ==
  (~resets /\ Len(stream) <= size(buf)) => ReadsDeliver(buf, stream)

\* C2 witness: a partly filled buffer whose unwritten storage is not zero,
\* read by read_to_bytes, which returned the two or more bytes written
C2_Witness ==
  /\ last.op = "read_to_bytes" /\ ~resets
  /\ Len(stream) >= 2 /\ Len(stream) < size(buf)
  /\ last.out = stream
  /\ buf.data[size(buf)] = 1
  /\ \E i, j \in 1..Len(stream) : stream[i] # stream[j]

\* C3 (read_into fails fast): a read_into call whose destination is shorter
\* than read_hint() panics, in every fill state.
C3_ShortDstPanics ==
  (last.op = "read_into" /\ Len(last.arg) < read_hint(buf)) => last.panic

\* C4 (write-count fidelity): for capacity >= 1 every write returns the length
\* of its input, also when the input is longer than the capacity, and
\* written() is the sum of the lengths of all inputs since construction or
\* the last reset.
C4_WriteCount ==
  /\ written(buf) = Len(stream)
  /\ (last.op = "write" /\ size(buf) >= 1) =>
       (~last.panic /\ last.ret = Len(last.arg))

\* C4 witness: a write longer than the capacity, after earlier writes
C4_Witness ==
  /\ last.op = "write" /\ ~last.panic
  /\ size(buf) >= 1 /\ Len(last.arg) > size(buf)
  /\ last.ret = Len(last.arg)
  /\ written(buf) > Len(last.arg)

\* C5 (capacity invariant): after any writes and resets read_hint() <= size().
C5_HintWithinSize == read_hint(buf) <= size(buf)

\* C5 witness: read_hint called on a wrapped buffer with the cursor off 0,
\* after more was written than fits, returned the capacity
C5_Witness ==
  /\ last.op = "read_hint"
  /\ size(buf) >= 1 /\ buf.write_cursor # 0
  /\ written(buf) > size(buf)
  /\ last.ret = size(buf)

\* C6 (readable length is derived from the counter): after any writes and
\* resets on a buffer of capacity >= 1, read_hint() = min(written(), size()).
C6_HintIsMin ==
  size(buf) >= 1 => read_hint(buf) = Min(written(buf), size(buf))

\* C6 witness: read_hint called on a not yet wrapped buffer after a reset
\* returned the cursor, which is the nonzero count written since
C6_Witness ==
  /\ last.op = "read_hint" /\ resets
  /\ written(buf) >= 1 /\ written(buf) < size(buf)
  /\ last.ret = buf.write_cursor
  /\ last.ret = written(buf)

\* C7 (reset law): after a reset followed by writes of M <= capacity bytes,
\* read_hint, read_into and read_to_bytes give the same results as on a newly
\* constructed buffer of the same capacity given the same writes.
C7_ResetLaw ==
  (resets /\ Len(stream) <= size(buf)) =>
    /\ read_hint(buf) = read_hint(fresh)
    /\ read_to_bytes(buf) = read_to_bytes(fresh)
    /\ \A d \in Dsts : read_into(buf, d) = read_into(fresh, d)

\* C7 witness: a reset buffer that still holds bytes from before the reset
\* which the new buffer does not hold, read by read_to_bytes after writes,
\* which returned exactly the bytes written since the reset
C7_Witness ==
  /\ last.op = "read_to_bytes" /\ resets
  /\ Len(stream) >= 1 /\ Len(stream) <= size(buf)
  /\ buf.data # fresh.data
  /\ last.out = stream
  /\ last.out = read_to_bytes(fresh).bytes

\* C8 (the three read paths agree): with a destination of length >=
\* read_hint(), read_into returns read_hint(), which is the length of the
\* read_to_bytes view, and the first read_hint() bytes of the destination are
\* the bytes of that view.
C8_ReadPathsAgree ==
  \A d \in Dsts :
    Len(d) >= read_hint(buf) =>
      LET r == read_into(buf, d)
          v == read_to_bytes(buf).bytes
      IN  /\ ~r.panic
          /\ r.ret = read_hint(buf)
          /\ r.ret = Len(v)
          /\ SliceTo(r.dst, r.ret) = v

\* C8 witness: read_into on a wrapped buffer, cursor off 0, with a long enough
\* destination, returned read_hint() bytes, not all equal, that are the view
C8_Witness ==
  /\ last.op = "read_into" /\ ~last.panic
  /\ written(buf) > size(buf) /\ buf.write_cursor # 0
  /\ Len(last.arg) >= read_hint(buf)
  /\ last.ret = read_hint(buf)
  /\ SliceTo(last.dst, last.ret) = read_to_bytes(buf).bytes
  /\ \E i, j \in 1..last.ret : last.dst[i] # last.dst[j]

ReadOps == {"read_hint", "read_into", "read_to_bytes", "size", "written"}

\* what a recorded read call returned: count, view, and the bytes delivered
Returned(l) ==
  [panic |-> l.panic, ret |-> l.ret, out |-> l.out, kind |-> l.kind,
   got |-> IF l.op = "read_into" /\ ~l.panic
           THEN SliceTo(l.dst, Min(l.ret, Len(l.dst))) ELSE <<>>]

\* C9 (reads are side-effect free and idempotent): a read operation leaves
\* storage, cursor and counter unchanged, and a read operation that directly
\* follows the same read operation, no write or reset in between, returns the
\* same count and content (for read_into: with destinations of one length, or
\* with two destinations that are both at least read_hint() long).
C9_ReadsPure ==
  [][last'.op \in ReadOps =>
       /\ buf' = buf
       /\ ( /\ last.op = last'.op
            /\ \/ Len(last.arg) = Len(last'.arg)
               \/ Min(Len(last.arg), Len(last'.arg)) >= read_hint(buf) ) =>
            Returned(last') = Returned(last)]_vars

\* C9 witness: a read_into that delivered the whole of a wrapped buffer
C9_Witness ==
  /\ last.op = "read_into" /\ ~last.panic
  /\ written(buf) > size(buf) /\ buf.write_cursor # 0
  /\ last.ret = size(buf) /\ Len(last.dst) > last.ret

\* C10 (zero capacity fails fast): over zero-length storage every write, the
\* write of the empty slice included, panics, and read_hint returns 0.
C10_ZeroCapacity ==
  size(buf) = 0 =>
    /\ read_hint(buf) = 0
    /\ \A b \in BytesUpTo(MaxWrite) : write(buf, b).panic
    /\ last.op = "write" => last.panic

\* C10 witness: the write of the empty slice panicked on a buffer of capacity
\* 0 that a panicking write had been given bytes before
C10_Witness ==
  /\ size(buf) = 0
  /\ last.op = "write" /\ last.panic /\ last.arg = <<>>
  /\ written(buf) > 0
  /\ read_hint(buf) = 0

\* C12 (cursor range): for capacity >= 1, after any writes and resets the
\* write cursor is within 0 .. capacity - 1.
C12_CursorInRange ==
  size(buf) >= 1 => (0 <= buf.write_cursor /\ buf.write_cursor < size(buf))

\* C12 witness: on a wrapped buffer a short write ended on the last position
\* of the storage and left the cursor there
C12_Witness ==
  /\ last.op = "write" /\ size(buf) >= 2
  /\ Len(last.arg) >= 1 /\ Len(last.arg) < size(buf)
  /\ written(buf) > size(buf)
  /\ buf.write_cursor = size(buf) - 1

\* C13 (cursor/counter consistency): for capacity >= 1, written() < capacity
\* implies write_cursor = written(), and written() = capacity implies
\* write_cursor = 0.
C13_CursorMatchesCounter ==
  size(buf) >= 1 =>
    /\ written(buf) < size(buf) => buf.write_cursor = written(buf)
    /\ written(buf) = size(buf) => buf.write_cursor = 0

\* C13 witness: after a reset, writes in more than one call filled the storage
\* exactly and the cursor is back at 0
C13_Witness ==
  /\ last.op = "write" /\ resets
  /\ size(buf) >= 2
  /\ written(buf) = size(buf) /\ buf.write_cursor = 0
  /\ Len(last.arg) >= 1 /\ Len(last.arg) < written(buf)

\* C18 (read_into destination frame): a read_into that returns n with a
\* destination longer than read_hint() leaves the destination's length and
\* every byte at index >= n as they were.
C18_DstFrame ==
  /\ \A d \in Dsts :
       Len(d) > read_hint(buf) =>
         LET r == read_into(buf, d)
         IN  /\ ~r.panic
             /\ Len(r.dst) = Len(d)
             /\ \A i \in (r.ret + 1)..Len(d) : r.dst[i] = d[i]
  /\ (last.op = "read_into" /\ ~last.panic /\ Len(last.arg) > read_hint(buf)) =>
       SliceFrom(last.dst, last.ret) = SliceFrom(last.arg, last.ret)

\* C18 witness: read_into on a wrapped buffer, cursor off 0, whose storage
\* is all 0, kept a 1 in the destination beyond the count it returned
C18_Witness ==
  /\ last.op = "read_into" /\ ~last.panic
  /\ written(buf) > size(buf) /\ buf.write_cursor # 0
  /\ Len(last.arg) > last.ret
  /\ buf.data = Zeros(size(buf))
  /\ last.dst[last.ret + 1] = 1

\* C19 (empty write is a no-op): for capacity >= 1, writing the empty slice
\* returns 0 and leaves storage, cursor, counter and so all reads unchanged.
C19_EmptyWriteNoOp ==
  size(buf) >= 1 =>
    /\ write(buf, <<>>) = [self |-> buf, panic |-> FALSE, ret |-> 0]
    /\ (last.op = "write" /\ last.arg = <<>>) => (~last.panic /\ last.ret = 0)

\* C19 witness: the empty slice written to a wrapped buffer with the cursor
\* off 0
C19_Witness ==
  /\ last.op = "write" /\ last.arg = <<>> /\ last.ret = 0
  /\ size(buf) >= 1 /\ written(buf) > size(buf) /\ buf.write_cursor # 0
  /\ write(buf, <<>>).self = buf

\* the input of a write after truncation to the capacity cap
Truncated(a, cap) == IF Len(a) > cap THEN LastN(a, cap) ELSE a

\* C14 (physical write layout): for capacity >= 1 a write at cursor c of the
\* truncated input t of length k sets storage[(c + i) mod capacity] = t[i]
\* for 0 <= i < k, leaves every other position as it was and sets the cursor
\* to (c + k) mod capacity; t is the last `capacity` bytes of a longer input.
C14_WriteLayout ==
  [][(last'.op = "write" /\ size(buf) >= 1) =>
       LET cap == size(buf)
           c == buf.write_cursor
           t == Truncated(last'.arg, cap)
           k == Len(t)
       IN  /\ size(buf') = cap
           /\ \A i \in 0..(k - 1) : buf'.data[((c + i) % cap) + 1] = t[i + 1]
           /\ \A j \in 0..(cap - 1) :
                (\A i \in 0..(k - 1) : (c + i) % cap # j) =>
                  buf'.data[j + 1] = buf.data[j + 1]
           /\ buf'.write_cursor = (c + k) % cap]_vars

\* C14 witness: a write of 2 .. capacity - 1 bytes that ran over the end of
\* the storage and continued at offset 0
C14_Witness ==
  /\ last.op = "write" /\ size(buf) >= 3
  /\ Len(last.arg) >= 2 /\ Len(last.arg) < size(buf)
  /\ buf.write_cursor >= 1 /\ buf.write_cursor < Len(last.arg)
  /\ buf.data[buf.write_cursor] = last.arg[Len(last.arg)]
  /\ last.arg[1] # last.arg[Len(last.arg)]

\* C15 (reset effect and frame): reset() sets cursor and counter to 0, leaves
\* every byte of the storage and the capacity as they were, and right after
\* it read_hint() is 0 and the reads return nothing.
C15_ResetEffect ==
  [][last'.op = "reset" =>
       /\ buf'.write_cursor = 0
       /\ written(buf') = 0
       /\ buf'.data = buf.data
       /\ read_hint(buf') = 0
       /\ read_to_bytes(buf').bytes = <<>>
       /\ \A d \in Dsts :
            read_into(buf', d) = [panic |-> FALSE, ret |-> 0, dst |-> d]]_vars

\* C15 witness: a buffer just reset whose storage still holds a byte that is
\* not 0, with nothing readable
C15_Witness ==
  /\ last.op = "reset" /\ resets
  /\ size(buf) >= 2
  /\ \E i \in 1..size(buf) : buf.data[i] = 1
  /\ buf.write_cursor = 0 /\ written(buf) = 0
  /\ read_hint(buf) = 0

\* C17 (oversized write keeps the cursor): for capacity >= 1 a single write
\* of more than `capacity` bytes leaves the cursor where it was, overwrites
\* every storage position, and the reads then return the last `capacity`
\* bytes of that input.
C17_OversizedWrite ==
  [][(last'.op = "write" /\ size(buf) >= 1 /\ Len(last'.arg) > size(buf)) =>
       LET cap == size(buf)
           c == buf.write_cursor
           t == LastN(last'.arg, cap)
       IN  /\ buf'.write_cursor = c
           /\ \A j \in 0..(cap - 1) : buf'.data[j + 1] = t[((j - c) % cap) + 1]
           /\ ReadsDeliver(buf', t)]_vars

\* C17 witness: a write longer than the capacity on a buffer that held
\* earlier writes, cursor off 0, after which read_to_bytes gives its tail
C17_Witness ==
  /\ last.op = "write" /\ size(buf) >= 2
  /\ Len(last.arg) > size(buf)
  /\ written(buf) > Len(last.arg)
  /\ buf.write_cursor # 0
  /\ read_to_bytes(buf).bytes = LastN(last.arg, size(buf))
  /\ \E i, j \in 1..size(buf) : buf.data[i] # buf.data[j]

\* the bytes seen through a Cow returned by read_to_bytes when the buffer is
\* in state self: an owned Vec holds its own bytes, a borrowed slice shows
\* the storage it points into (it starts at offset 0 in both borrowed cases)
ViewBytes(v, self) ==
  IF v.kind = "Owned" THEN v.bytes
  ELSE SliceTo(self.data, Min(Len(v.bytes), Len(self.data)))

\* C16 (read_to_bytes view kind): read_to_bytes returns an owned copy of
\* length `capacity` exactly when written() > capacity and write_cursor # 0,
\* and a borrowed view of the live storage in every other reachable state; the
\* bytes of an owned copy stay as they are over any later write or reset.
C16_ViewKind ==
  LET v == read_to_bytes(buf)
  IN  /\ v.kind \in {"Owned", "Borrowed"}
      /\ v.kind = "Owned" <=> (written(buf) > size(buf) /\ buf.write_cursor # 0)
      /\ v.kind = "Owned" => Len(v.bytes) = size(buf)
      /\ v.kind = "Borrowed" => v.bytes = ViewBytes(v, buf)
      /\ v.kind = "Owned" =>
           /\ ViewBytes(v, reset(buf)) = v.bytes
           /\ \A b \in BytesUpTo(MaxWrite) : ViewBytes(v, write(buf, b).self) = v.bytes
      /\ last.op = "read_to_bytes" => (last.kind = v.kind /\ last.out = v.bytes)

\* C16 witness: read_to_bytes on a wrapped buffer with the cursor off 0
\* returned an owned copy that is not what the storage holds from offset 0
C16_Witness ==
  /\ last.op = "read_to_bytes" /\ last.kind = "Owned"
  /\ written(buf) > size(buf) /\ buf.write_cursor # 0
  /\ Len(last.out) = size(buf)
  /\ last.out # buf.data

\* ------------------------------------------------------ the I/O adapters

\* a call of an adapter's write method, result r, with input b: the twin is
\* given the same bytes through Buffer::write
AdapterWrote(op, b, r) ==
  /\ buf.written + Len(b) <= MaxWritten
  /\ buf' = r.self
  /\ last' = [NoCall EXCEPT !.op = op, !.panic = r.panic, !.ret = r.ret,
                            !.arg = b, !.kind = r.kind]
  /\ fresh' = write(fresh, b).self
  /\ stream' = stream \o b
  /\ UNCHANGED resets

\* a call of an adapter's flush / shutdown / close method, result r
AdapterFlushed(op, r) ==
  /\ buf' = r.self
  /\ last' = [NoCall EXCEPT !.op = op, !.panic = r.panic, !.kind = r.kind]
  /\ UNCHANGED <<fresh, stream, resets>>

\* std::io::Write::write(&mut buf, b)
DoIoWrite ==
  \E b \in BytesUpTo(MaxWrite) : AdapterWrote("io_write", b, io_write(buf, b))

\* std::io::Write::flush(&mut buf)
DoIoFlush == AdapterFlushed("io_flush", io_flush(buf))

\* tokio poll_write, polled once
DoTokioPollWrite ==
  \E b \in BytesUpTo(MaxWrite) :
    AdapterWrote("tokio_poll_write", b, tokio_poll_write(buf, b))

\* tokio poll_flush, polled once
DoTokioPollFlush == AdapterFlushed("tokio_poll_flush", tokio_poll_flush(buf))

\* tokio poll_shutdown, polled once
DoTokioPollShutdown ==
  AdapterFlushed("tokio_poll_shutdown", tokio_poll_shutdown(buf))

\* futures-io poll_write, polled once
DoFuturesPollWrite ==
  \E b \in BytesUpTo(MaxWrite) :
    AdapterWrote("futures_poll_write", b, futures_poll_write(buf, b))

\* futures-io poll_flush, polled once
DoFuturesPollFlush ==
  AdapterFlushed("futures_poll_flush", futures_poll_flush(buf))

\* futures-io poll_close, polled once
DoFuturesPollClose ==
  AdapterFlushed("futures_poll_close", futures_poll_close(buf))

\* the buffer driven through its adapters, next to direct writes and resets
NextIo ==
  \/ DoWrite
  \/ DoReset
  \/ DoIoWrite
  \/ DoIoFlush
  \/ DoTokioPollWrite
  \/ DoTokioPollFlush
  \/ DoTokioPollShutdown
  \/ DoFuturesPollWrite
  \/ DoFuturesPollFlush
  \/ DoFuturesPollClose

SpecIo == Init /\ [][NextIo]_vars

WriteAdapters == {"io_write", "tokio_poll_write", "futures_poll_write"}

FlushAdapters == {"io_flush", "tokio_poll_flush", "tokio_poll_shutdown",
                  "futures_poll_flush", "futures_poll_close"}

\* what a successful first call of adapter method op returns
Success(op) == IF op \in {"io_write", "io_flush"} THEN "Ok" ELSE "Ready(Ok)"

\* C11 (adapter shims never fail or suspend): for capacity >= 1 a first call
\* of std::io::Write::write or of either poll_write returns Ok(n) /
\* Poll::Ready(Ok(n)) with n = buf.len() and changes the buffer exactly as
\* Buffer::write does; flush, poll_flush, poll_shutdown and poll_close return
\* success at once and leave storage, cursor and counter unchanged.
C11_AdaptersSucceed ==
  [][/\ (last'.op \in WriteAdapters /\ size(buf) >= 1) =>
          /\ ~last'.panic
          /\ last'.kind = Success(last'.op)
          /\ last'.ret = Len(last'.arg)
          /\ buf' = write(buf, last'.arg).self
     /\ last'.op \in FlushAdapters =>
          /\ ~last'.panic
          /\ last'.kind = Success(last'.op)
          /\ buf' = buf]_vars

\* C11 witness: a poll_write of more bytes than the capacity on a buffer that
\* already held data resolved at once with the full input length
C11_Witness ==
  /\ last.op = "tokio_poll_write" /\ last.kind = "Ready(Ok)"
  /\ size(buf) >= 1 /\ Len(last.arg) > size(buf)
  /\ last.ret = Len(last.arg)
  /\ written(buf) > Len(last.arg)
====
